---- MODULE Spec2Model ----
(***************************************************************************)
(* karga-http: the HTTP metric, the aggregate (consume / merge), the report *)
(* transform and the action unit built by make_http_action!, modelled from  *)
(* src/karga-http/src/lib.rs.                                                *)
(*                                                                           *)
(* Numbers.  The u64 counters of HttpAggregate are modelled as naturals:     *)
(* every sum reachable within the bounds below is far below 2^64, where      *)
(* checked and wrapping u64 addition both coincide with integer addition.    *)
(* A Duration's nanosecond count (u128) is kept as two 64-bit words          *)
(* [hi, lo] (value hi * 2^64 + lo), so that the cast `as u64` of line 52    *)
(* is modelled by what it does: it keeps the low word.                       *)
(* The f64 failure ratio is kept as an exact fraction [num, den] (den = 0    *)
(* encodes the IEEE results NaN and +inf); rounding to the nearest f64 is    *)
(* not modelled.                                                             *)
(***************************************************************************)
EXTENDS Integers, Sequences, FiniteSets, TLC

\* ---------------------------------------------------------------- bounds
NumWorkers == 3        \* aggregates (one per worker slot)
MaxConsume == 3        \* consume calls over all aggregates
NumCallers == 2        \* workers that call the action unit
MaxInvocations == 3    \* calls of the action unit over all workers

\* The highest value the histogram records. Histogram::record reports a value
\* it cannot make room for as Err(RecordError); the model puts that limit
\* just below the largest low word of a latency (LowWords), so that both
\* outcomes of line 52 occur.
HighestTrackable == 1

Workers == 1..NumWorkers
Callers == 1..NumCallers

\* Option::None, and the absence of a report or a metric: a record, so that
\* it compares with the records it stands in for.
None == [none |-> TRUE]

\* ----------------------------------------------------------- input sets
StatusCodes == {200, 404}
BytesSent == {7}
BytesReceived == {42}
HighWords == {0, 1}
LowWords == 0..(HighestTrackable + 1)
\* The responses of the server: a status code and the content length the
\* response advertises (None: it advertises none).
Responses ==
    {[status |-> 200, content_length |-> [some |-> 42]],
     [status |-> 404, content_length |-> None]}
Methods == {"GET"}
\* The strings given to HttpActionConfig's url setter.
UrlStrings == {"http://localhost:3000", "mailto:a@b", "not a url"}
HeaderOptions == {None, [some |-> "h"]}
\* A body is absent, a buffer of bytes, or a stream that is read once.
BodyOptions == {None, [some |-> "bytes"], [some |-> "stream"]}


\* ---------------------------------------------------------------- metrics
Durations == [hi : HighWords, lo : LowWords]

HttpResponseMetric ==
    [latency : Durations, status_code : StatusCodes,
     bytes_sent : BytesSent, bytes_received : BytesReceived]

Success(m) == [tag |-> "Success", m |-> m]
Failure == [tag |-> "Failure"]

HttpMetric == {Success(m) : m \in HttpResponseMetric} \cup {Failure}

\* Duration::as_nanos() as u64: the u128 count truncated to its low 64 bits.
AsNanosAsU64(d) == d.lo

\* -------------------------------------------------------------- histogram
\* Histogram<u64> as its bin counts. All values the model records are below
\* 2048, where a histogram of 3 significant digits has bins of width 1.
HistValues == 0..HighestTrackable

HistNew == [v \in HistValues |-> 0]

RECURSIVE SumTo(_, _)
SumTo(f, n) == IF n < 0 THEN 0 ELSE f[n] + SumTo(f, n - 1)

HistLen(h) == SumTo(h, HighestTrackable)

\* Histogram::record: Ok with the bin incremented, or Err and no change.
HistCanRecord(v) == v \in HistValues
HistRecord(h, v) == [h EXCEPT ![v] = @ + 1]

\* Histogram += Histogram: bin-wise addition.
HistAdd(h, o) == [v \in HistValues |-> h[v] + o[v]]

HistMin(h) ==
    IF HistLen(h) = 0 THEN 0
    ELSE CHOOSE v \in HistValues :
             h[v] > 0 /\ \A u \in HistValues : u < v => h[u] = 0

HistMax(h) ==
    IF HistLen(h) = 0 THEN 0
    ELSE CHOOSE v \in HistValues :
             h[v] > 0 /\ \A u \in HistValues : u > v => h[u] = 0

RECURSIVE WeightedSumTo(_, _)
WeightedSumTo(h, n) == IF n < 0 THEN 0 ELSE n * h[n] + WeightedSumTo(h, n - 1)

\* Histogram::mean() as u64: 0.0 on an empty histogram, else the mean truncated.
HistMeanAsU64(h) ==
    IF HistLen(h) = 0 THEN 0
    ELSE WeightedSumTo(h, HighestTrackable) \div HistLen(h)

\* Histogram::value_at_quantile(pct / 100): the first value whose cumulative
\* count reaches max(1, ceil(q * total)); 0 on an empty histogram.
HistValueAtQuantile(h, pct) ==
    LET total == HistLen(h)
        ceil == (pct * total + 99) \div 100
        want == IF ceil = 0 THEN 1 ELSE ceil
    IN  IF total = 0 THEN 0
        ELSE CHOOSE v \in HistValues :
                 /\ SumTo(h, v) >= want
                 /\ \A u \in HistValues : u < v => SumTo(h, u) < want

\* -------------------------------------------------------------- aggregate
\* HashMap<u16, u64> as a function whose domain is the set of keys present.
MapGet(map, k) == IF k \in DOMAIN map THEN map[k] ELSE 0

\* *map.entry(k).or_default() += n
MapEntryAdd(map, k, n) ==
    [x \in DOMAIN map \cup {k} |-> IF x = k THEN MapGet(map, k) + n ELSE map[x]]

RECURSIVE MapSum(_)
MapSum(map) ==
    IF DOMAIN map = {} THEN 0
    ELSE LET k == CHOOSE x \in DOMAIN map : TRUE
         IN  map[k] + MapSum([x \in DOMAIN map \ {k} |-> map[x]])

EmptyMap == [x \in {} |-> 0]

HttpAggregateNew ==
    [latency_hist |-> HistNew,
     status_count |-> EmptyMap,
     total_bytes_sent |-> 0,
     total_bytes_received |-> 0,
     count |-> 0,
     failure_count |-> 0]

\* Mutant of ConsumeFailure: count is not incremented.
ConsumeFailureSkipsCount(self) ==
    [self EXCEPT !.failure_count = @ + 1]

ConsumeFailure(self) ==
    [self EXCEPT !.failure_count = @ + 1, !.count = @ + 1]

\* Mutant of ConsumeRejected: the sample is dropped without a trace.
ConsumeRejectedSilently(self) ==
    self

\* The histogram refused the latency: failure_count += 1; return.
ConsumeRejected(self) ==
    [self EXCEPT !.failure_count = @ + 1]

ConsumeRecorded(self, m) ==
    [self EXCEPT
        !.latency_hist = HistRecord(@, AsNanosAsU64(m.latency)),
        !.status_count = MapEntryAdd(@, m.status_code, 1),
        !.total_bytes_sent = @ + m.bytes_sent,
        !.total_bytes_received = @ + m.bytes_received,
        !.count = @ + 1]

\* Mutant of Consume: the status code is counted before the histogram is
\* asked, so a refused latency leaves a status without a sample.
ConsumeCountsStatusFirst(self, metric) ==
    IF metric.tag = "Success"
    THEN IF HistCanRecord(AsNanosAsU64(metric.m.latency))
         THEN ConsumeRecorded(self, metric.m)
         ELSE ConsumeRejected(
                  [self EXCEPT !.status_count =
                                   MapEntryAdd(@, metric.m.status_code, 1)])
    ELSE ConsumeFailure(self)

\* Mutant of Consume: the Failure arm returns like the rejected arm does,
\* before count is incremented.
ConsumeFailureReturnsEarly(self, metric) ==
    IF metric.tag = "Success"
    THEN IF HistCanRecord(AsNanosAsU64(metric.m.latency))
         THEN ConsumeRecorded(self, metric.m)
         ELSE ConsumeRejected(self)
    ELSE ConsumeRejected(self)

Consume(self, metric) ==
    IF metric.tag = "Success"
    THEN IF HistCanRecord(AsNanosAsU64(metric.m.latency))
         THEN ConsumeRecorded(self, metric.m)
         ELSE ConsumeRejected(self)
    ELSE ConsumeFailure(self)

RECURSIVE MergeStatus(_, _)
MergeStatus(mine, other) ==
    IF DOMAIN other = {} THEN mine
    ELSE LET k == CHOOSE x \in DOMAIN other : TRUE
         IN  MergeStatus(MapEntryAdd(mine, k, other[k]),
                         [x \in DOMAIN other \ {k} |-> other[x]])

\* Mutant of Merge: a key already present keeps its own count
\* (or_insert(other_count) in place of or_default() += other_count).
MergeKeepsOwnStatus(self, other) ==
    [latency_hist |-> HistAdd(self.latency_hist, other.latency_hist),
     status_count |->
        [k \in DOMAIN self.status_count \cup DOMAIN other.status_count |->
            IF k \in DOMAIN self.status_count
            THEN self.status_count[k] ELSE other.status_count[k]],
     total_bytes_sent |-> self.total_bytes_sent + other.total_bytes_sent,
     total_bytes_received |-> self.total_bytes_received + other.total_bytes_received,
     failure_count |-> self.failure_count + other.failure_count,
     count |-> self.count + other.count]

\* Mutant of Merge: the received total grows by the other's sent total.
MergeCrossesBytes(self, other) ==
    [latency_hist |-> HistAdd(self.latency_hist, other.latency_hist),
     status_count |-> MergeStatus(self.status_count, other.status_count),
     total_bytes_sent |-> self.total_bytes_sent + other.total_bytes_sent,
     total_bytes_received |-> self.total_bytes_received + other.total_bytes_sent,
     failure_count |-> self.failure_count + other.failure_count,
     count |-> self.count + other.count]

\* Mutant of Merge: count is assigned, not added to.
MergeAssignsCount(self, other) ==
    [latency_hist |-> HistAdd(self.latency_hist, other.latency_hist),
     status_count |-> MergeStatus(self.status_count, other.status_count),
     total_bytes_sent |-> self.total_bytes_sent + other.total_bytes_sent,
     total_bytes_received |-> self.total_bytes_received + other.total_bytes_received,
     failure_count |-> self.failure_count + other.failure_count,
     count |-> other.count]

Merge(self, other) ==
    [latency_hist |-> HistAdd(self.latency_hist, other.latency_hist),
     status_count |-> MergeStatus(self.status_count, other.status_count),
     total_bytes_sent |-> self.total_bytes_sent + other.total_bytes_sent,
     total_bytes_received |-> self.total_bytes_received + other.total_bytes_received,
     failure_count |-> self.failure_count + other.failure_count,
     count |-> self.count + other.count]

\* ----------------------------------------------------------------- report
\* Mutant of FailureRatio: the division is done on the integers, which
\* panics on a zero divisor.
FailureRatioIntegerDivision(failure_count, count) ==
    IF count = 0 THEN [panic |-> "attempt to divide by zero"]
    ELSE [num |-> failure_count * 100, den |-> count]

\* (failure_count as f64 / count as f64) * 100.0 as the fraction num / den;
\* den = 0 is NaN when num = 0 and +inf otherwise.
FailureRatio(failure_count, count) ==
    [num |-> failure_count * 100, den |-> count]

\* Mutant of HttpReportFrom: the two byte totals are crossed.
HttpReportFromCrossed(value) ==
    [req_duration |->
        [avg |-> HistMeanAsU64(value.latency_hist),
         min |-> HistMin(value.latency_hist),
         med |-> HistValueAtQuantile(value.latency_hist, 50),
         max |-> HistMax(value.latency_hist),
         p90 |-> HistValueAtQuantile(value.latency_hist, 90),
         p95 |-> HistValueAtQuantile(value.latency_hist, 95)],
     reqs_total |-> value.count,
     req_failure_ratio |-> FailureRatio(value.failure_count, value.count),
     status_codes |-> value.status_count,
     data_sent |-> value.total_bytes_received,
     data_received |-> value.total_bytes_sent]

HttpReportFrom(value) ==
    [req_duration |->
        [avg |-> HistMeanAsU64(value.latency_hist),
         min |-> HistMin(value.latency_hist),
         med |-> HistValueAtQuantile(value.latency_hist, 50),
         max |-> HistMax(value.latency_hist),
         p90 |-> HistValueAtQuantile(value.latency_hist, 90),
         p95 |-> HistValueAtQuantile(value.latency_hist, 95)],
     reqs_total |-> value.count,
     req_failure_ratio |-> FailureRatio(value.failure_count, value.count),
     status_codes |-> value.status_count,
     data_sent |-> value.total_bytes_sent,
     data_received |-> value.total_bytes_received]

\* ------------------------------------------------------------ action unit
\* HttpActionConfig::builder(): the url setter runs Url::parse(s).expect(..),
\* so a string that does not parse panics before a config exists.
UrlParse(s) ==
    IF s = "not a url" THEN [err |-> "parse"]
    ELSE [ok |-> [text |-> s, has_host |-> (s = "http://localhost:3000")]]

UrlParses(s) == "ok" \in DOMAIN UrlParse(s)

HttpActionConfig(method, s, headers, body) ==
    [method |-> method, url |-> UrlParse(s).ok, headers |-> headers, body |-> body]

\* client.request(method, url) ... .build(): Err when the url has no host.
RequestBuild(config) ==
    IF config.url.has_host
    THEN [ok |-> [method |-> config.method, url |-> config.url.text,
                  headers |-> config.headers, body |-> config.body]]
    ELSE [err |-> "builder"]

\* Request::try_clone: None when the body is a stream.
TryClone(req) ==
    IF req.body = [some |-> "stream"] THEN None ELSE [some |-> req]

\* res.content_length().unwrap_or(0)
UnwrapOr0(len) == IF len = None THEN 0 ELSE len.some

\* Mutant of MetricOf: a response with an error status counts as a failure
\* (as if error_for_status() were applied to the response).
MetricOfStatusChecked(res, elapsed) ==
    IF "ok" \in DOMAIN res /\ res.ok.status < 400
    THEN Success([latency |-> elapsed,
                  status_code |-> res.ok.status,
                  bytes_received |-> UnwrapOr0(res.ok.content_length),
                  bytes_sent |-> 0])
    ELSE Failure

\* The value of the async block once client.execute(req).await has returned.
MetricOf(res, elapsed) ==
    IF "ok" \in DOMAIN res
    THEN Success([latency |-> elapsed,
                  status_code |-> res.ok.status,
                  bytes_received |-> UnwrapOr0(res.ok.content_length),
                  bytes_sent |-> 0])
    ELSE Failure

\* Result<Response, reqwest::Error> of client.execute(req).await
ClientResults == {[ok |-> r] : r \in Responses} \cup {[err |-> "transport"]}

Idle == [pc |-> "idle"]

\* ------------------------------------------------------------------ state
VARIABLES
    aggs,       \* aggs[w]: the HttpAggregate of slot w
    owned,      \* owned[w]: TRUE until the aggregate is moved into merge or from
    calls,      \* calls[w]: consume calls that went into aggregate w, directly
                \*           or through the aggregates merged into it
    single,     \* one aggregate that consumes every metric any slot consumes
    merges,     \* merge calls so far, by kind of the aggregate merged in
    report,     \* None, or [of, value]: the HttpReport taken from slot `of`
    unit,       \* the action unit: [state |-> "unbuilt"], or, with what the
                \*           builder was given, [state |-> "panicked", given], or
                \*           [state |-> "ready", given, req |-> the shared template]
    inv,        \* inv[w]: worker w's current invocation of the action unit
    history     \* what the invocations so far came to, by kind

vars == <<aggs, owned, calls, single, merges, report, unit, inv, history>>

aggVars == <<aggs, owned, calls, single, merges, report>>
unitVars == <<unit, inv, history>>

\* merges.fresh: merges of a fresh aggregate into one that is not fresh;
\* merges.populated: merges of an aggregate that is not fresh.
MergeKind(m, self, other) ==
    IF other # HttpAggregateNew THEN [m EXCEPT !.populated = @ + 1]
    ELSE IF self # HttpAggregateNew THEN [m EXCEPT !.fresh = @ + 1]
    ELSE m

RECURSIVE SumCalls(_, _)
SumCalls(c, n) == IF n = 0 THEN 0 ELSE c[n] + SumCalls(c, n - 1)

Init ==
    /\ aggs = [w \in Workers |-> HttpAggregateNew]
    /\ owned = [w \in Workers |-> TRUE]
    /\ calls = [w \in Workers |-> 0]
    /\ single = HttpAggregateNew
    /\ merges = [fresh |-> 0, populated |-> 0]
    /\ report = None
    /\ unit = [state |-> "unbuilt"]
    /\ inv = [w \in Workers |-> Idle]
    /\ history = [started |-> 0, cancelled |-> 0, responses |-> 0, errors |-> 0,
                  success |-> 0, failure |-> 0, unrecorded |-> 0, seen |-> {}]

\* aggs[w].consume(&metric)
DoConsume(w, metric) ==
    /\ report = None
    /\ owned[w]
    /\ SumCalls(calls, NumWorkers) < MaxConsume
    /\ aggs' = [aggs EXCEPT ![w] = Consume(@, metric)]
    /\ calls' = [calls EXCEPT ![w] = @ + 1]
    /\ single' = Consume(single, metric)
    /\ UNCHANGED <<owned, merges, report>>
    /\ UNCHANGED unitVars

\* aggs[i].merge(aggs[j]): aggs[j] is moved into the call and dropped by it;
\* its slot is left empty. A worker's aggregate is handed over once the
\* worker has no invocation under way.
DoMerge(i, j) ==
    /\ report = None
    /\ i # j
    /\ owned[i]
    /\ owned[j]
    /\ inv[j] = Idle
    /\ aggs' = [aggs EXCEPT ![i] = Merge(@, aggs[j]), ![j] = HttpAggregateNew]
    /\ owned' = [owned EXCEPT ![j] = FALSE]
    /\ calls' = [calls EXCEPT ![i] = @ + calls[j], ![j] = 0]
    /\ merges' = MergeKind(merges, aggs[i], aggs[j])
    /\ UNCHANGED <<single, report>>
    /\ UNCHANGED unitVars

\* HttpReport::from(aggs[w]): the last step of a run
\* (examples/http_hammer_localhost.rs, line 31). aggs[w] keeps the value
\* that was moved into the call.
DoReport(w) ==
    /\ report = None
    /\ owned[w]
    /\ inv[w] = Idle
    /\ report' = [of |-> w, value |-> HttpReportFrom(aggs[w])]
    /\ owned' = [owned EXCEPT ![w] = FALSE]
    /\ UNCHANGED <<aggs, calls, single, merges>>
    /\ UNCHANGED unitVars

\* Mutant of MakeHttpAction: a request that cannot be built is not noticed
\* at construction (the build error is kept for the first invocation).
MakeHttpActionSkipsBuildCheck(method, s, headers, body) ==
    /\ unit.state = "unbuilt"
    /\ LET given == [method |-> method, url |-> s, headers |-> headers, body |-> body]
       IN  unit' =
             IF ~UrlParses(s) THEN [state |-> "panicked", given |-> given]
             ELSE LET req == [method |-> method, url |-> s,
                              headers |-> headers, body |-> body]
                  IN  IF TryClone(req) = None
                      THEN [state |-> "panicked", given |-> given]
                      ELSE [state |-> "ready", given |-> given, req |-> req]
    /\ UNCHANGED <<inv, history>>
    /\ UNCHANGED aggVars

\* Mutant of MakeHttpAction: line 162 is missing, the duplication of the
\* template is not tried at construction.
MakeHttpActionNoCloneCheck(method, s, headers, body) ==
    /\ unit.state = "unbuilt"
    /\ LET given == [method |-> method, url |-> s, headers |-> headers, body |-> body]
       IN  unit' =
             IF ~UrlParses(s) THEN [state |-> "panicked", given |-> given]
             ELSE LET built == RequestBuild(HttpActionConfig(method, s, headers, body))
                  IN  IF "err" \in DOMAIN built
                      THEN [state |-> "panicked", given |-> given]
                      ELSE [state |-> "ready", given |-> given, req |-> built.ok]
    /\ UNCHANGED <<inv, history>>
    /\ UNCHANGED aggVars

\* HttpActionConfig::builder()...build() followed by make_http_action!(config).
\* Each `expect` that fails panics: no action unit comes to exist.
\* unit.given keeps what the builder was given.
MakeHttpAction(method, s, headers, body) ==
    /\ unit.state = "unbuilt"
    /\ LET given == [method |-> method, url |-> s, headers |-> headers, body |-> body]
       IN  unit' =
             IF ~UrlParses(s) THEN [state |-> "panicked", given |-> given]
             ELSE LET built == RequestBuild(HttpActionConfig(method, s, headers, body))
                  IN  IF "err" \in DOMAIN built
                      THEN [state |-> "panicked", given |-> given]
                      ELSE IF TryClone(built.ok) = None
                      THEN [state |-> "panicked", given |-> given]
                      ELSE [state |-> "ready", given |-> given, req |-> built.ok]
    /\ UNCHANGED <<inv, history>>
    /\ UNCHANGED aggVars

\* Mutant of Invoke: the invocation dispatches the shared template itself and
\* takes its body out of it, in place of duplicating it.
InvokeTakesBody(w) ==
    /\ unit.state = "ready"
    /\ report = None
    /\ owned[w]
    /\ inv[w] = Idle
    /\ history.started < MaxInvocations
    /\ inv' = [inv EXCEPT ![w] = [pc |-> "awaiting", req |-> unit.req]]
    /\ history' = [history EXCEPT !.started = @ + 1]
    /\ unit' = [unit EXCEPT !.req.body = None]
    /\ UNCHANGED aggVars

\* One call of the closure, run up to its suspension point: the client
\* handle and the Arc are cloned, req.try_clone().unwrap() duplicates the
\* template (a None panics), the start instant is taken and
\* client.execute(req) is awaited.
Invoke(w) ==
    /\ unit.state = "ready"
    /\ report = None
    /\ owned[w]
    /\ inv[w] = Idle
    /\ history.started < MaxInvocations
    /\ inv' = [inv EXCEPT ![w] =
                 IF TryClone(unit.req) = None THEN [pc |-> "panicked"]
                 ELSE [pc |-> "awaiting", req |-> TryClone(unit.req).some]]
    /\ history' = [history EXCEPT !.started = @ + 1]
    /\ UNCHANGED unit
    /\ UNCHANGED aggVars

\* The client returns: the elapsed time is taken, the metric is built and
\* returned, and the worker that awaited it hands it to its own aggregate.
Complete(w, res, elapsed) ==
    /\ inv[w].pc = "awaiting"
    /\ LET metric == MetricOf(res, elapsed)
       IN  /\ aggs' = [aggs EXCEPT ![w] = Consume(@, metric)]
           /\ single' = Consume(single, metric)
           /\ history' =
                [history EXCEPT
                    !.responses = IF "ok" \in DOMAIN res THEN @ + 1 ELSE @,
                    !.errors = IF "err" \in DOMAIN res THEN @ + 1 ELSE @,
                    !.success = IF metric.tag = "Success" THEN @ + 1 ELSE @,
                    !.failure = IF metric.tag = "Failure" THEN @ + 1 ELSE @,
                    !.unrecorded =
                        IF /\ metric.tag = "Success"
                           /\ ~HistCanRecord(AsNanosAsU64(metric.m.latency))
                        THEN @ + 1 ELSE @,
                    !.seen = IF "ok" \in DOMAIN res THEN @ \cup {res.ok} ELSE @]
    /\ calls' = [calls EXCEPT ![w] = @ + 1]
    /\ inv' = [inv EXCEPT ![w] = Idle]
    /\ UNCHANGED <<owned, merges, report, unit>>

\* Mutant of Cancel: a dropped future is reported as a Failure metric.
CancelRecordsFailure(w) ==
    /\ inv[w].pc = "awaiting"
    /\ inv' = [inv EXCEPT ![w] = Idle]
    /\ history' = [history EXCEPT !.cancelled = @ + 1]
    /\ aggs' = [aggs EXCEPT ![w] = Consume(@, Failure)]
    /\ single' = Consume(single, Failure)
    /\ calls' = [calls EXCEPT ![w] = @ + 1]
    /\ UNCHANGED <<owned, merges, report, unit>>

\* The scheduler drops the future while it is suspended at the await of
\* line 171: nothing after the await runs, no metric is built.
Cancel(w) ==
    /\ inv[w].pc = "awaiting"
    /\ inv' = [inv EXCEPT ![w] = Idle]
    /\ history' = [history EXCEPT !.cancelled = @ + 1]
    /\ UNCHANGED unit
    /\ UNCHANGED aggVars

Next ==
    \/ \E w \in Workers, metric \in HttpMetric : DoConsume(w, metric)
    \/ \E i, j \in Workers : DoMerge(i, j)
    \/ \E w \in Workers : DoReport(w)

Spec == Init /\ [][Next]_vars

NextAction ==
    \/ \E method \in Methods, s \in UrlStrings,
          headers \in HeaderOptions, body \in BodyOptions :
              MakeHttpAction(method, s, headers, body)
    \/ \E w \in Callers : Invoke(w)
    \/ \E w \in Callers, res \in ClientResults, elapsed \in Durations :
          Complete(w, res, elapsed)
    \/ \E w \in Callers : Cancel(w)
    \/ \E i, j \in Callers : DoMerge(i, j)
    \/ \E w \in Callers : DoReport(w)

SpecAction == Init /\ [][NextAction]_vars


\* ------------------------------------------------------------------ claims
NoMerges == merges.fresh = 0 /\ merges.populated = 0

\* C1 (as claimed): while no merge has happened, the count of every aggregate
\* equals the number of consume calls made on it, whatever the metrics were.
C1_CountEqualsConsumeCalls ==
    NoMerges => \A w \in Workers : aggs[w].count = calls[w]

\* C2 (as claimed): in every aggregate reached by consume and merge, count is
\* failure_count plus the sum of the values of status_count.
C2_CountIsFailuresPlusStatuses ==
    \A w \in Workers :
        aggs[w].count = aggs[w].failure_count + MapSum(aggs[w].status_count)

\* The orders in which three things can be taken.
Permutations3(a, b, c) ==
    {<<a, b, c>>, <<a, c, b>>, <<b, a, c>>, <<b, c, a>>, <<c, a, b>>, <<c, b, a>>}

\* C3: for any three aggregates built by consume calls, merging them in every
\* order and in both groupings gives equal aggregates, field for field, and
\* merging two of them gives the same aggregate either way round.
C3_MergeAssociativeCommutative ==
    NoMerges =>
        \A a, b, c \in Workers :
            (a < b /\ b < c /\ owned[a] /\ owned[b] /\ owned[c]) =>
                LET pair == [x, y \in {a, b, c} |-> Merge(aggs[x], aggs[y])]
                    all == Merge(pair[a, b], aggs[c])
                IN  \A p \in Permutations3(a, b, c) :
                        /\ Merge(pair[p[1], p[2]], aggs[p[3]]) = all
                        /\ Merge(aggs[p[1]], pair[p[2], p[3]]) = all
                        /\ pair[p[1], p[2]] = pair[p[2], p[1]]

\* Three aggregates that each consumed something, two of them holding
\* different status keys.
C3_Witness ==
    /\ NoMerges
    /\ \E a, b, c \in Workers :
          /\ a < b /\ b < c
          /\ owned[a] /\ owned[b] /\ owned[c]
          /\ \A w \in {a, b, c} : aggs[w] # HttpAggregateNew
          /\ \E x, y \in {a, b, c} :
                /\ DOMAIN aggs[x].status_count = {200}
                /\ DOMAIN aggs[y].status_count = {404}

\* The aggregate a run ends with: the only one left, owned or reported.
Live(w) == owned[w] \/ (report # None /\ report.of = w)
Final(w) == Live(w) /\ \A v \in Workers \ {w} : ~Live(v)

\* C4: once the aggregates of all workers have been merged into one, in
\* whatever order, that aggregate equals, field for field, the aggregate that
\* consumed every metric itself.
C4_PartialAggregationExact ==
    \A w \in Workers : Final(w) => aggs[w] = single

\* All three workers consumed a share and were merged into one.
C4_Witness ==
    \E w \in Workers :
        /\ Final(w)
        /\ merges.populated = NumWorkers - 1
        /\ aggs[w].count >= 2
        /\ aggs[w].failure_count >= 1

\* C5: a merge of a fresh aggregate into an aggregate that is not fresh
\* changes no field of any aggregate.
C5_FreshIsMergeIdentity ==
    [][merges'.fresh = merges.fresh + 1 => aggs' = aggs]_vars

\* A fresh aggregate has been merged into one that holds samples.
C5_Witness ==
    /\ merges.fresh >= 1
    /\ merges.populated = 0
    /\ \E w \in Workers :
          /\ owned[w]
          /\ aggs[w].count >= 2
          /\ Cardinality(DOMAIN aggs[w].status_count) = 2

\* A ratio num / den lies in 0..100.
IsPercentage(r) == r.den > 0 /\ 0 <= r.num /\ r.num <= 100 * r.den

\* C6 (as claimed): the failure ratio of a report taken from an aggregate
\* with count > 0 lies between 0 and 100.
C6_FailureRatioIsPercentage ==
    (report # None /\ report.value.reqs_total > 0)
        => IsPercentage(report.value.req_failure_ratio)

\* C8: a report carries the status map, the byte totals and the count of
\* the aggregate it was taken from, unchanged.
C8_ReportCopiesVerbatim ==
    report # None =>
        /\ report.value.status_codes = aggs[report.of].status_count
        /\ report.value.data_sent = aggs[report.of].total_bytes_sent
        /\ report.value.data_received = aggs[report.of].total_bytes_received
        /\ report.value.reqs_total = aggs[report.of].count

\* A report taken from an aggregate with two status keys and bytes both ways.
C8_Witness ==
    /\ report # None
    /\ Cardinality(DOMAIN report.value.status_codes) = 2
    /\ report.value.data_sent > 0
    /\ report.value.data_received > report.value.data_sent

\* C9: every invocation that ran to completion produced one metric, Success
\* for a response and Failure for a transport error, and no invocation
\* panicked.
C9_OneMetricPerInvocation ==
    /\ history.success = history.responses
    /\ history.failure = history.errors
    /\ \A w \in Workers : inv[w].pc # "panicked"

\* Invocations of both kinds have completed, one of them with an error status.
C9_Witness ==
    /\ history.errors >= 1
    /\ history.responses >= 2
    /\ \E r \in history.seen : r.status = 404

\* The end of a run of the action unit: every invocation completed, the
\* callers' aggregates merged into aggregate w and the report taken from it.
EndOfRun(w) ==
    /\ report # None
    /\ report.of = w
    /\ \A v \in Callers \ {w} : ~owned[v]
    /\ history.started = history.responses + history.errors

\* The accounting of s responses r and f transport errors.
Accounted(w, r, s, f) ==
    /\ aggs[w].count = s + f
    /\ aggs[w].failure_count = f
    /\ aggs[w].status_count = [c \in {r.status} |-> s]
    /\ aggs[w].total_bytes_received = s * UnwrapOr0(r.content_length)
    /\ aggs[w].total_bytes_sent = 0
    /\ report.value.req_failure_ratio.den > 0
    /\ report.value.req_failure_ratio.num * (s + f)
           = 100 * f * report.value.req_failure_ratio.den

ConfigurationError(given) ==
    \/ given.url = "not a url"
    \/ given.url = "mailto:a@b"
    \/ given.body = [some |-> "stream"]

\* C11: a configuration error makes construction fail; after a failed
\* construction no invocation is ever started, and no invocation is where a
\* configuration error first shows.
C11_ConfigurationErrorsFailConstruction ==
    /\ (unit.state # "unbuilt" /\ ConfigurationError(unit.given))
           => unit.state = "panicked"
    /\ unit.state = "panicked"
           => (history.started = 0 /\ \A w \in Workers : inv[w] = Idle)
    /\ \A w \in Workers : inv[w].pc # "panicked"

\* Construction failed on a body that cannot be duplicated, the url being
\* fine.
C11_Witness ==
    /\ unit.state = "panicked"
    /\ unit.given.url = "http://localhost:3000"
    /\ unit.given.body = [some |-> "stream"]

\* C12: the report of an aggregate whose count is 0 is a report value: its
\* failure ratio is the floating-point quotient by zero (NaN, or +inf when
\* failure_count is not 0), not a fault, and the latency figures of an empty
\* histogram are 0.
C12_ReportOfZeroCountIsDefined ==
    (report # None /\ aggs[report.of].count = 0) =>
        LET r == report.value.req_failure_ratio
            d == report.value.req_duration
        IN  /\ DOMAIN r = {"num", "den"}
            /\ r.den = 0
            /\ r.num = 100 * aggs[report.of].failure_count
            /\ report.value.reqs_total = 0
            /\ aggs[report.of].latency_hist = HistNew
                   => \A k \in DOMAIN d : d[k] = 0

\* The report of a fresh aggregate was taken.
C12_Witness ==
    /\ report # None
    /\ aggs[report.of] = HttpAggregateNew
    /\ calls[report.of] = 0

\* The histogram refuses the value consume offers it for this metric.
Refused(metric) ==
    metric.tag = "Success" /\ ~HistCanRecord(AsNanosAsU64(metric.m.latency))

\* The histogram accepts the value consume offers it for this metric.
Recorded(metric) ==
    metric.tag = "Success" /\ HistCanRecord(AsNanosAsU64(metric.m.latency))

\* C13: a Success metric whose latency the histogram refuses adds 1 to
\* failure_count and leaves status_count, both byte totals and the histogram
\* as they were.
C13_RefusedSampleIsOnlyAFailure ==
    [][\A w \in Workers : calls'[w] = calls[w] + 1 =>
         \A metric \in HttpMetric : (Refused(metric) /\ DoConsume(w, metric)) =>
            /\ aggs'[w].failure_count = aggs[w].failure_count + 1
            /\ aggs'[w].status_count = aggs[w].status_count
            /\ aggs'[w].total_bytes_sent = aggs[w].total_bytes_sent
            /\ aggs'[w].total_bytes_received = aggs[w].total_bytes_received
            /\ aggs'[w].latency_hist = aggs[w].latency_hist]_vars

\* One aggregate consumed a recorded sample and a refused one.
C13_Witness ==
    /\ NoMerges
    /\ \E w \in Workers :
          /\ calls[w] = 2
          /\ aggs[w].count = 1
          /\ aggs[w].failure_count = 1
          /\ HistLen(aggs[w].latency_hist) = 1

\* C14: a Failure metric adds 1 to failure_count and 1 to count and leaves
\* the histogram, status_count and both byte totals as they were.
C14_FailureTouchesOnlyTheCounters ==
    [][\A w \in Workers : calls'[w] = calls[w] + 1 =>
         (DoConsume(w, Failure) =>
            /\ aggs'[w].failure_count = aggs[w].failure_count + 1
            /\ aggs'[w].count = aggs[w].count + 1
            /\ aggs'[w].latency_hist = aggs[w].latency_hist
            /\ aggs'[w].status_count = aggs[w].status_count
            /\ aggs'[w].total_bytes_sent = aggs[w].total_bytes_sent
            /\ aggs'[w].total_bytes_received = aggs[w].total_bytes_received)]_vars

\* One aggregate consumed a recorded sample and a Failure.
C14_Witness ==
    /\ NoMerges
    /\ \E w \in Workers :
          /\ calls[w] = 2
          /\ aggs[w].count = 2
          /\ aggs[w].failure_count = 1
          /\ HistLen(aggs[w].latency_hist) = 1

\* The value v is the nanosecond count of the duration d.
IsNanosOf(v, d) == d.hi = 0 /\ d.lo = v

\* C15: a Success metric the histogram records adds one sample at that
\* latency's nanosecond count and no other, adds 1 to status_count at the
\* metric's status code (a new key starts at 1) and changes no other key,
\* adds bytes_sent and bytes_received to the totals, adds 1 to count and
\* leaves failure_count as it was.
C15_RecordedSampleIsCountedOnce ==
    [][\A w \in Workers : calls'[w] = calls[w] + 1 =>
         \A metric \in HttpMetric : (Recorded(metric) /\ DoConsume(w, metric)) =>
            LET m == metric.m
                before == aggs[w]
                after == aggs'[w]
            IN  /\ \E v \in HistValues :
                      /\ IsNanosOf(v, m.latency)
                      /\ after.latency_hist =
                            [u \in HistValues |->
                                before.latency_hist[u] + IF u = v THEN 1 ELSE 0]
                /\ DOMAIN after.status_count =
                       DOMAIN before.status_count \cup {m.status_code}
                /\ after.status_count[m.status_code] =
                       IF m.status_code \in DOMAIN before.status_count
                       THEN before.status_count[m.status_code] + 1 ELSE 1
                /\ \A k \in DOMAIN before.status_count \ {m.status_code} :
                       after.status_count[k] = before.status_count[k]
                /\ after.total_bytes_sent = before.total_bytes_sent + m.bytes_sent
                /\ after.total_bytes_received =
                       before.total_bytes_received + m.bytes_received
                /\ after.count = before.count + 1
                /\ after.failure_count = before.failure_count]_vars

\* The nanosecond count of the duration d is outside what the histogram can
\* hold: it does not fit in 64 bits, or it is above the highest trackable value.
OutOfRange(d) == d.hi > 0 \/ d.lo > HighestTrackable

\* C16: a Success metric whose latency is out of the histogram's range adds
\* no sample to the histogram and is counted as a failure.
C16_OutOfRangeLatencyIsNeverRecorded ==
    [][\A w \in Workers : calls'[w] = calls[w] + 1 =>
         \A metric \in HttpMetric :
            (metric.tag = "Success" /\ OutOfRange(metric.m.latency)
                /\ DoConsume(w, metric)) =>
                   /\ aggs'[w].latency_hist = aggs[w].latency_hist
                   /\ aggs'[w].failure_count = aggs[w].failure_count + 1]_vars

\* C17: the step that cancels an invocation suspended at its await yields no
\* metric: no aggregate changes, no consume call is made, and the numbers of
\* Success and Failure metrics produced stay what they were.
C17_CancelledInvocationYieldsNoMetric ==
    [][history'.cancelled = history.cancelled + 1 =>
          /\ aggs' = aggs
          /\ single' = single
          /\ calls' = calls
          /\ history'.success = history.success
          /\ history'.failure = history.failure
          /\ \E w \in Workers : inv[w].pc = "awaiting" /\ inv'[w] = Idle]_vars

\* An invocation was cancelled in a run in which another one got its
\* response and was counted.
C17_Witness ==
    /\ history.cancelled >= 1
    /\ history.responses >= 1
    /\ \E w \in Workers : aggs[w].count >= 1

\* The request the builder's input describes.
RequestGiven(given) ==
    [method |-> given.method, url |-> given.url,
     headers |-> given.headers, body |-> given.body]

\* The metric lines 173-181 make of one client result and one elapsed time.
MetricExpected(res, elapsed) ==
    IF "ok" \in DOMAIN res
    THEN [tag |-> "Success",
          m |-> [latency |-> elapsed,
                 status_code |-> res.ok.status,
                 bytes_received |->
                    IF res.ok.content_length = None THEN 0
                    ELSE res.ok.content_length.some,
                 bytes_sent |-> 0]]
    ELSE [tag |-> "Failure"]

\* C18: invocations of one action unit do not affect one another. Once
\* built, the shared template stays the request made at construction; every
\* request in flight is a duplicate equal to it; a step of one invocation
\* leaves every other invocation and its aggregate as they were; and what a
\* completing invocation hands to its aggregate is the metric of the result
\* that arrived and of an elapsed time, nothing else.
C18_InvocationsAreIndependent ==
    [][/\ unit.state = "ready" => unit' = unit
       /\ unit'.state = "ready" => unit'.req = RequestGiven(unit'.given)
       /\ \A w \in Callers :
             inv'[w].pc = "awaiting" => inv'[w].req = unit'.req
       /\ \A w \in Callers : inv'[w] # inv[w] =>
             /\ \A v \in Callers \ {w} : inv'[v] = inv[v] /\ aggs'[v] = aggs[v]
             /\ calls'[w] # calls[w] =>
                 \E res \in ClientResults :
                    /\ ("ok" \in DOMAIN res) = (history'.responses # history.responses)
                    /\ "ok" \in DOMAIN res => res.ok \in history'.seen
                    /\ \E elapsed \in Durations :
                          /\ (history'.unrecorded # history.unrecorded)
                                 = ("ok" \in DOMAIN res /\ ~HistCanRecord(elapsed.lo))
                          /\ aggs'[w] = Consume(aggs[w], MetricExpected(res, elapsed))]_vars

\* Two invocations of a template with headers and a body are in flight at
\* once, after an earlier invocation has completed.
C18_Witness ==
    /\ unit.state = "ready"
    /\ unit.req.body = [some |-> "bytes"]
    /\ unit.req.headers # None
    /\ \A w \in Callers : inv[w].pc = "awaiting"
    /\ history.responses >= 1

\* C19: in every aggregate reached from new() by consume and merge, the
\* histogram holds as many samples as status_count has counted responses.
C19_SamplesEqualCountedStatuses ==
    \A w \in Workers :
        HistLen(aggs[w].latency_hist) = MapSum(aggs[w].status_count)

\* After a merge of a populated aggregate, an aggregate holds two samples
\* under two status codes, and a refused sample next to them.
C19_Witness ==
    /\ merges.populated >= 1
    /\ \E w \in Workers :
          /\ HistLen(aggs[w].latency_hist) = 2
          /\ DOMAIN aggs[w].status_count = {200, 404}
          /\ aggs[w].failure_count = 1
          /\ aggs[w].count = 2

\* C20: once construction has succeeded the template can be duplicated, and
\* every invocation that was started got past its duplication: each one is
\* awaiting its response, was cancelled, or has completed.
C20_DuplicationNeverFailsAfterConstruction ==
    unit.state = "ready" =>
        /\ TryClone(unit.req) # None
        /\ \A w \in Workers : inv[w].pc \in {"idle", "awaiting"}
        /\ history.started =
              Cardinality({w \in Callers : inv[w].pc = "awaiting"})
                  + history.cancelled + history.responses + history.errors

\* Every invocation the run allows was made on a template with a body, two
\* of them at once.
C20_Witness ==
    /\ unit.state = "ready"
    /\ unit.req.body = [some |-> "bytes"]
    /\ history.started = MaxInvocations
    /\ Cardinality({w \in Callers : inv[w].pc = "awaiting"}) >= 2

====
